---- MODULE Spec2Model ----
(***************************************************************************)
(* Model of pkg/operator/controller/ingress/deployment-strategy.go:        *)
(* the computation of replica count, rolling-update strategy and pod       *)
(* affinity of the router deployment of an IngressController.              *)
(*                                                                         *)
(* Go values are modelled as records with the Go field names.  A pointer   *)
(* or a slice is a sequence: <<>> is nil, <<v>> points to v.               *)
(***************************************************************************)
EXTENDS Integers, Sequences, FiniteSets, TLC

(* ------------------------------ bounds --------------------------------- *)

\* smallest and largest replica count a user declares in
\* IngressController.Spec.Replicas; the range straddles the threshold of 4
MinReplicas == 3

MaxReplicas == 4

\* largest replica count the default-replica policy returns
MaxDefault == 2

(* ----------------------- enumerations of the API ----------------------- *)

HostNetworkStrategyType == "HostNetwork"

PrivateStrategyType == "Private"

LoadBalancerServiceStrategyType == "LoadBalancerService"

NodePortServiceStrategyType == "NodePortService"

\* a strategy type the switch has no case for (the zero value of the field)
UnsetStrategyType == ""

StrategyTypes ==
    { HostNetworkStrategyType, PrivateStrategyType,
      LoadBalancerServiceStrategyType, NodePortServiceStrategyType,
      UnsetStrategyType }

SingleReplicaTopologyMode == "SingleReplica"

HighlyAvailableTopologyMode == "HighlyAvailable"

TopologyModes == { SingleReplicaTopologyMode, HighlyAvailableTopologyMode }

DefaultPlacementControlPlane == "ControlPlane"

DefaultPlacementWorkers == "Workers"

DefaultPlacements == { DefaultPlacementControlPlane, DefaultPlacementWorkers }

RollingUpdateDeploymentStrategyType == "RollingUpdate"

LabelSelectorOpIn == "In"

LabelSelectorOpNotIn == "NotIn"

ControllerDeploymentLabel == "controller.ControllerDeploymentLabel"

ControllerDeploymentHashLabel == "controller.ControllerDeploymentHashLabel"

HostnameTopologyKey == "kubernetes.io/hostname"

\* names of the IngressControllers the computation is called for
Names == { "default" }

(* --------------------------- the arguments ----------------------------- *)

ReplicaCounts == MinReplicas .. MaxReplicas

\* *operatorv1.IngressController: Spec.Replicas is a *int32
IngressControllers ==
    { [ Name   |-> n,
        Spec   |-> [ Replicas |-> r ],
        Status |-> [ EndpointPublishingStrategy |-> [ Type |-> t ] ] ] :
      n \in Names,
      r \in { <<>> } \cup { <<k>> : k \in ReplicaCounts },
      t \in StrategyTypes }

\* *configv1.Ingress
IngressConfigs ==
    { [ Status |-> [ DefaultPlacement |-> p ] ] : p \in DefaultPlacements }

\* *configv1.Infrastructure
InfraConfigs ==
    { [ Status |-> [ InfrastructureTopology |-> i,
                     ControlPlaneTopology   |-> c ] ] :
      i \in TopologyModes, c \in TopologyModes }

\* the default-replica policies: one replica count per governing topology
DefaultPolicies == [ TopologyModes -> 1 .. MaxDefault ]

(* ------------------------------ the state ------------------------------ *)

VARIABLES
    deployment,        \* the *appsv1.Deployment the caller owns
    defaultPolicy,     \* the default-replica policy in force
    called,            \* foo has been called at least once
    ci,                \* arguments of the last call
    ingressConfig,
    infraConfig,
    configureAffinity, \* value returned by the last call
    before,            \* the deployment as the last call found it
    returnedBefore,    \* value returned by the call before the last
    repeated           \* the last call had the arguments of the one before

vars ==
    << deployment, defaultPolicy, called, ci, ingressConfig, infraConfig,
       configureAffinity, before, returnedBefore, repeated >>

(* -------------------------- intstr.IntOrString ------------------------- *)

FromString(s) == [ Type |-> "String", IntVal |-> 0, StrVal |-> s ]

FromInt(i) == [ Type |-> "Int", IntVal |-> i, StrVal |-> "" ]

pointerTo(ios) == << ios >>

(* ------------------------------ helpers -------------------------------- *)

IngressControllerDeploymentLabel(ic) == ic.Name

\* a plausible slip: the placement preference is not consulted
singleReplica_infraOnly(ingCfg, infCfg) ==
    infCfg.Status.InfrastructureTopology = SingleReplicaTopologyMode

singleReplica(ingCfg, infCfg) ==
    LET topology ==
            IF ingCfg.Status.DefaultPlacement = DefaultPlacementControlPlane
            THEN infCfg.Status.ControlPlaneTopology
            ELSE infCfg.Status.InfrastructureTopology
    IN  topology = SingleReplicaTopologyMode

DetermineReplicas(ingCfg, infCfg) ==
    defaultPolicy[ IF ingCfg.Status.DefaultPlacement = DefaultPlacementControlPlane
                   THEN infCfg.Status.ControlPlaneTopology
                   ELSE infCfg.Status.InfrastructureTopology ]

\* a plausible slip: a single-replica topology overrides the declared count
determineDeploymentReplicas_topologyWins(ic, ingCfg, infCfg) ==
    IF ic.Spec.Replicas # <<>> /\ ~singleReplica(ingCfg, infCfg)
    THEN ic.Spec.Replicas[1]
    ELSE DetermineReplicas(ingCfg, infCfg)

determineDeploymentReplicas(ic, ingCfg, infCfg) ==
    IF ic.Spec.Replicas # <<>>
    THEN ic.Spec.Replicas[1]
    ELSE DetermineReplicas(ingCfg, infCfg)

(* ------------------------- the values foo writes ----------------------- *)

\* a plausible slip: the surge of the other case copied over
HostNetworkStrategy_surge ==
    [ Type          |-> RollingUpdateDeploymentStrategyType,
      RollingUpdate |-> << [ MaxUnavailable |-> pointerTo(FromString("25%")),
                             MaxSurge       |-> pointerTo(FromString("25%")) ] >> ]

HostNetworkStrategy ==
    [ Type          |-> RollingUpdateDeploymentStrategyType,
      RollingUpdate |-> << [ MaxUnavailable |-> pointerTo(FromString("25%")),
                             MaxSurge       |-> pointerTo(FromInt(0)) ] >> ]

\* a plausible slip: the threshold excludes 4
maxUnavailableFor_above4(desiredReplicas) ==
    IF desiredReplicas > 4 THEN "25%" ELSE "50%"

maxUnavailableFor(desiredReplicas) ==
    IF desiredReplicas >= 4 THEN "25%" ELSE "50%"

SurgeStrategy(desiredReplicas) ==
    [ Type          |-> RollingUpdateDeploymentStrategyType,
      RollingUpdate |-> << [ MaxUnavailable |->
                                 pointerTo(FromString(maxUnavailableFor(desiredReplicas))),
                             MaxSurge       |-> pointerTo(FromString("25%")) ] >> ]

\* metav1.LabelSelectorRequirement; Values is a []string
Requirement(key, op, values) ==
    [ Key |-> key, Operator |-> op, Values |-> values ]

\* a plausible slip: the hash requirement is given the controller's label value
PodAffinityTerm_hashValues(ic, hashOperator) ==
    [ TopologyKey   |-> HostnameTopologyKey,
      LabelSelector |-> << [ MatchExpressions |->
          << Requirement(ControllerDeploymentLabel, LabelSelectorOpIn,
                         << IngressControllerDeploymentLabel(ic) >>),
             Requirement(ControllerDeploymentHashLabel, hashOperator,
                         << IngressControllerDeploymentLabel(ic) >>) >> ] >> ]

\* the corev1.PodAffinityTerm of lines 91-107 and 117-133
PodAffinityTerm(ic, hashOperator) ==
    [ TopologyKey   |-> HostnameTopologyKey,
      LabelSelector |-> << [ MatchExpressions |->
          << Requirement(ControllerDeploymentLabel, LabelSelectorOpIn,
                         << IngressControllerDeploymentLabel(ic) >>),
             Requirement(ControllerDeploymentHashLabel, hashOperator, <<>>) >> ] >> ]

AffinityPolicy(ic) ==
    [ PodAffinity     |-> << [ PreferredDuringSchedulingIgnoredDuringExecution |->
          << [ Weight          |-> 100,
               PodAffinityTerm |-> PodAffinityTerm(ic, LabelSelectorOpNotIn) ] >> ] >>,
      PodAntiAffinity |-> << [ RequiredDuringSchedulingIgnoredDuringExecution |->
          << PodAffinityTerm(ic, LabelSelectorOpIn) >> ] >> ]

(* ------------------------- the branches of foo ------------------------- *)

SurgeFamily ==
    { PrivateStrategyType, LoadBalancerServiceStrategyType,
      NodePortServiceStrategyType }

\* if singleReplica(...) { return false }
shortCircuit(dep) == [ deployment |-> dep, ret |-> FALSE ]

\* a plausible slip: the case also resets the affinity it does not need
hostNetworkCase_clearsAffinity(dep) ==
    [ deployment |-> [ dep EXCEPT !.Spec.Strategy = HostNetworkStrategy,
                                  !.Spec.Template.Spec.Affinity = <<>> ],
      ret        |-> FALSE ]

\* case operatorv1.HostNetworkStrategyType
hostNetworkCase(dep) ==
    [ deployment |-> [ dep EXCEPT !.Spec.Strategy = HostNetworkStrategy ],
      ret        |-> FALSE ]

\* a plausible slip: a rolling strategy already on the deployment is kept
surgeCase_keepsRolling(ic, dep, desiredReplicas) ==
    [ deployment |->
          [ dep EXCEPT
              !.Spec.Strategy =
                  IF dep.Spec.Strategy.Type = RollingUpdateDeploymentStrategyType
                  THEN dep.Spec.Strategy
                  ELSE SurgeStrategy(desiredReplicas),
              !.Spec.Template.Spec.Affinity = << AffinityPolicy(ic) >> ],
      ret        |-> TRUE ]

\* case operatorv1.PrivateStrategyType, LoadBalancerServiceStrategyType,
\*      NodePortServiceStrategyType
surgeCase(ic, dep, desiredReplicas) ==
    [ deployment |->
          [ dep EXCEPT
              !.Spec.Strategy = SurgeStrategy(desiredReplicas),
              !.Spec.Template.Spec.Affinity = << AffinityPolicy(ic) >> ],
      ret        |-> TRUE ]

\* the zero value of appsv1.DeploymentStrategy: the platform default
DefaultStrategy == [ Type |-> "", RollingUpdate |-> <<>> ]

\* a plausible slip: a type without a case gets zero values written
noCase_zeroValues(dep) ==
    [ deployment |-> [ dep EXCEPT !.Spec.Strategy = DefaultStrategy,
                                  !.Spec.Template.Spec.Affinity = <<>> ],
      ret        |-> FALSE ]

\* the switch has no case for the type: configureAffinity stays false
noCase(dep) == [ deployment |-> dep, ret |-> FALSE ]

(* --------------------------------- foo --------------------------------- *)

\* a plausible slip: the threshold reads the replica count the deployment
\* had, not the one just resolved
foo_staleReplicas(ic, dep, ingCfg, infCfg) ==
    LET desiredReplicas == determineDeploymentReplicas(ic, ingCfg, infCfg)
        withReplicas    == [ dep EXCEPT !.Spec.Replicas = << desiredReplicas >> ]
        stale           == IF dep.Spec.Replicas = <<>> THEN 0 ELSE dep.Spec.Replicas[1]
        type            == ic.Status.EndpointPublishingStrategy.Type
    IN  IF singleReplica(ingCfg, infCfg) THEN shortCircuit(withReplicas)
        ELSE IF type = HostNetworkStrategyType THEN hostNetworkCase(withReplicas)
        ELSE IF type \in SurgeFamily THEN surgeCase(ic, withReplicas, stale)
        ELSE noCase(withReplicas)

\* a plausible slip: configureAffinity is set for every case of the switch
foo_flagAlways(ic, dep, ingCfg, infCfg) ==
    LET desiredReplicas == determineDeploymentReplicas(ic, ingCfg, infCfg)
        withReplicas    == [ dep EXCEPT !.Spec.Replicas = << desiredReplicas >> ]
        type            == ic.Status.EndpointPublishingStrategy.Type
    IN  IF singleReplica(ingCfg, infCfg) THEN shortCircuit(withReplicas)
        ELSE IF type = HostNetworkStrategyType
        THEN [ hostNetworkCase(withReplicas) EXCEPT !.ret = TRUE ]
        ELSE IF type \in SurgeFamily THEN surgeCase(ic, withReplicas, desiredReplicas)
        ELSE noCase(withReplicas)

\* The deployment foo leaves behind and the flag it returns.
foo(ic, dep, ingCfg, infCfg) ==
    LET desiredReplicas == determineDeploymentReplicas(ic, ingCfg, infCfg)
        withReplicas    == [ dep EXCEPT !.Spec.Replicas = << desiredReplicas >> ]
        type            == ic.Status.EndpointPublishingStrategy.Type
    IN  IF singleReplica(ingCfg, infCfg) THEN shortCircuit(withReplicas)
        ELSE IF type = HostNetworkStrategyType THEN hostNetworkCase(withReplicas)
        ELSE IF type \in SurgeFamily THEN surgeCase(ic, withReplicas, desiredReplicas)
        ELSE noCase(withReplicas)

(* ----------------------------- behaviour ------------------------------- *)

\* a deployment object nothing has been written to yet
NewDeployment ==
    [ Spec |-> [ Replicas |-> <<>>,
                 Strategy |-> DefaultStrategy,
                 Template |-> [ Spec |-> [ Affinity |-> <<>> ] ] ] ]

Init ==
    /\ deployment = NewDeployment
    /\ defaultPolicy \in DefaultPolicies
    /\ called = FALSE
    /\ ci = CHOOSE ic \in IngressControllers :
                /\ ic.Name = "default"
                /\ ic.Spec.Replicas = <<>>
                /\ ic.Status.EndpointPublishingStrategy.Type = UnsetStrategyType
    /\ ingressConfig = [ Status |-> [ DefaultPlacement |-> DefaultPlacementWorkers ] ]
    /\ infraConfig = [ Status |->
                         [ InfrastructureTopology |-> HighlyAvailableTopologyMode,
                           ControlPlaneTopology   |-> HighlyAvailableTopologyMode ] ]
    /\ configureAffinity = FALSE
    /\ before = NewDeployment
    /\ returnedBefore = FALSE
    /\ repeated = FALSE

\* One call foo(ic, deployment, ingCfg, infCfg) on the caller's deployment.
Foo(ic, ingCfg, infCfg) ==
    LET out == foo(ic, deployment, ingCfg, infCfg)
    IN  /\ deployment' = out.deployment
        /\ configureAffinity' = out.ret
        /\ before' = deployment
        /\ returnedBefore' = configureAffinity
        /\ repeated' = ( /\ called
                         /\ ic = ci
                         /\ ingCfg = ingressConfig
                         /\ infCfg = infraConfig )
        /\ called' = TRUE
        /\ ci' = ic
        /\ ingressConfig' = ingCfg
        /\ infraConfig' = infCfg
        /\ UNCHANGED defaultPolicy

Next ==
    \E ic \in IngressControllers, ingCfg \in IngressConfigs, infCfg \in InfraConfigs :
        Foo(ic, ingCfg, infCfg)

Spec == Init /\ [][Next]_vars

(* ------------------- vocabulary of the properties ---------------------- *)

\* the topology the placement preference of the last call selects
SelectedTopology ==
    IF ingressConfig.Status.DefaultPlacement = DefaultPlacementControlPlane
    THEN infraConfig.Status.ControlPlaneTopology
    ELSE infraConfig.Status.InfrastructureTopology

LastType == ci.Status.EndpointPublishingStrategy.Type

MultiReplica == SelectedTopology # SingleReplicaTopologyMode

Strategy(dep) == dep.Spec.Strategy

Affinity(dep) == dep.Spec.Template.Spec.Affinity

Percent(p) == << [ Type |-> "String", IntVal |-> 0, StrVal |-> p ] >>

Absolute(n) == << [ Type |-> "Int", IntVal |-> n, StrVal |-> "" ] >>

\* a rolling update strategy with the given limits
IsRolling(st, maxUnavailable, maxSurge) ==
    /\ st.Type = "RollingUpdate"
    /\ Len(st.RollingUpdate) = 1
    /\ st.RollingUpdate[1].MaxUnavailable = maxUnavailable
    /\ st.RollingUpdate[1].MaxSurge = maxSurge

\* the requirements of a pod affinity term on the generation-hash label
HashRequirements(term) ==
    IF Len(term.LabelSelector) = 0 THEN {}
    ELSE LET exprs == term.LabelSelector[1].MatchExpressions
         IN  { exprs[i] : i \in { j \in 1 .. Len(exprs) :
                                    exprs[j].Key = ControllerDeploymentHashLabel } }

\* the term has one generation-hash requirement, with the operator given and
\* no values, and is keyed by the node's hostname
IsHashTerm(term, op) ==
    /\ term.TopologyKey = "kubernetes.io/hostname"
    /\ Cardinality(HashRequirements(term)) = 1
    /\ \A r \in HashRequirements(term) : r.Operator = op /\ r.Values = <<>>

\* deployment objects an earlier call with other arguments left behind
LeftBehind ==
    { NewDeployment } \cup
    { foo(ic, NewDeployment, ingCfg, infCfg).deployment :
        ic \in IngressControllers, ingCfg \in IngressConfigs, infCfg \in InfraConfigs }

(* ------------------------------- C1 ------------------------------------ *)

C2_SurgeStrategy ==
    (called /\ MultiReplica
            /\ LastType \in { "Private", "LoadBalancerService", "NodePortService" }) =>
        /\ Len(deployment.Spec.Replicas) = 1
        /\ IsRolling(Strategy(deployment),
                     IF deployment.Spec.Replicas[1] < 4 THEN Percent("50%")
                                                        ELSE Percent("25%"),
                     Percent("25%"))

\* the boundary: a LoadBalancerService call with exactly 4 replicas
C2_Witness ==
    /\ called /\ MultiReplica
    /\ LastType = LoadBalancerServiceStrategyType
    /\ deployment.Spec.Replicas = << 4 >>
    /\ IsRolling(Strategy(deployment), Percent("25%"), Percent("25%"))

(* ------------------------------- C3 ------------------------------------ *)

\* C3 (as stated): after a call with type HostNetwork and a selected topology
\* other than SingleReplica the update strategy is rolling with maxSurge 0
\* (absolute) and maxUnavailable 25%, and the deployment has no affinity
\* policy.
C3_HostNetworkNoAffinity ==
    (called /\ MultiReplica /\ LastType = HostNetworkStrategyType) =>
        /\ IsRolling(Strategy(deployment), Percent("25%"), Absolute(0))
        /\ Affinity(deployment) = <<>>

\* C3 (amended): after such a call, for any replica count and placement
\* preference, the update strategy is rolling with maxSurge 0 (absolute) and
\* maxUnavailable 25%, the call returned false, and the affinity field is
\* the one the deployment had before the call (absent when it was absent).
C3_HostNetworkStrategy ==
    (called /\ MultiReplica /\ LastType = HostNetworkStrategyType) =>
        /\ IsRolling(Strategy(deployment), Percent("25%"), Absolute(0))
        /\ configureAffinity = FALSE
        /\ Affinity(deployment) = Affinity(before)

\* a HostNetwork call on a deployment that carried an affinity policy
C3_Witness ==
    /\ called /\ MultiReplica
    /\ LastType = HostNetworkStrategyType
    /\ Affinity(before) # <<>>
    /\ IsRolling(Strategy(deployment), Percent("25%"), Absolute(0))

(* ------------------------------- C4 ------------------------------------ *)

\* C4 (as stated): after any sequence of calls the deployment carries an
\* affinity policy if and only if the last call's type was Private,
\* LoadBalancerService or NodePortService and its selected topology was not
\* SingleReplica.
C4_AffinityIffSurgeCall ==
    called =>
        ( Affinity(deployment) # <<>>
            <=> (MultiReplica /\ LastType \in SurgeFamily) )

\* C4 (amended): after any sequence of calls the deployment carries an
\* affinity policy if and only if the last call's type was Private,
\* LoadBalancerService or NodePortService with a selected topology other
\* than SingleReplica, or the deployment already carried one before the last
\* call; a call for HostNetwork, for a single-replica topology or for
\* another type never attaches one and never removes one.
C4_AffinityIffSurgeCallOrKept ==
    called =>
        ( Affinity(deployment) # <<>>
            <=> \/ (MultiReplica /\ LastType \in SurgeFamily)
                \/ Affinity(before) # <<>> )

\* an affinity policy outliving a later HostNetwork call
C4_Witness ==
    /\ called /\ MultiReplica
    /\ LastType = HostNetworkStrategyType
    /\ Affinity(deployment) # <<>>
    /\ configureAffinity = FALSE

(* ------------------------------- C5 ------------------------------------ *)

C6_ReplicasResolved ==
    called =>
        deployment.Spec.Replicas =
            IF ci.Spec.Replicas # <<>>
            THEN ci.Spec.Replicas
            ELSE << DetermineReplicas(ingressConfig, infraConfig) >>

\* a declared count kept on a single-replica topology although the default
\* policy would choose another one
C6_Witness ==
    /\ called
    /\ SelectedTopology = SingleReplicaTopologyMode
    /\ ci.Spec.Replicas = << MaxReplicas >>
    /\ DetermineReplicas(ingressConfig, infraConfig) # MaxReplicas
    /\ deployment.Spec.Replicas = << MaxReplicas >>

(* ------------------------------- C7 ------------------------------------ *)

\* C7: after a call with a type other than HostNetwork, Private,
\* LoadBalancerService and NodePortService and a selected topology other than
\* SingleReplica, update strategy and affinity are the ones the deployment
\* had before the call, and the call returned false.
C7_UnrecognizedLeavesPolicy ==
    (called /\ MultiReplica
            /\ LastType \notin { "HostNetwork", "Private", "LoadBalancerService",
                                 "NodePortService" }) =>
        /\ Strategy(deployment) = Strategy(before)
        /\ Affinity(deployment) = Affinity(before)
        /\ configureAffinity = FALSE

\* a call for an unrecognized type on a deployment an earlier call filled
C7_Witness ==
    /\ called /\ MultiReplica
    /\ LastType = UnsetStrategyType
    /\ Affinity(before) # <<>>
    /\ Strategy(before) # DefaultStrategy
    /\ Strategy(deployment) = Strategy(before)

(* ------------------------------- C8 ------------------------------------ *)

C9_FlagIffAttached ==
    called =>
        /\ configureAffinity <=>
               ( SelectedTopology # "SingleReplica"
                 /\ LastType \in { "Private", "LoadBalancerService", "NodePortService" } )
        /\ configureAffinity => Affinity(deployment) # <<>>
        /\ ~configureAffinity => Affinity(deployment) = Affinity(before)

\* a call that returned true and attached a policy where there was none
C9_Witness ==
    /\ called
    /\ configureAffinity
    /\ Affinity(before) = <<>>
    /\ Affinity(deployment) # <<>>

(* ------------------------------- C10 ----------------------------------- *)

\* C10: a call with the arguments of the call before it, on the deployment
\* that call produced, leaves replica count, update strategy and affinity as
\* they were and returns the same flag.
C10_Idempotent ==
    repeated =>
        /\ deployment = before
        /\ configureAffinity = returnedBefore

\* a repeated call of the surge family at the threshold
C10_Witness ==
    /\ repeated
    /\ configureAffinity
    /\ deployment.Spec.Replicas = << 4 >>

====
